---- MODULE Spec2Model ----
(***************************************************************************)
(* Model of Lab7_Assignment.py: a Streamlit script that loads a table of   *)
(* student marks (cached), reads four sidebar filters, filters the table   *)
(* and renders aggregate views.  One execution of the script (a "pass") is *)
(* one action: Streamlit runs the script top to bottom, synchronously, on  *)
(* session start and after every widget change.                            *)
(*                                                                         *)
(* Numbers: marks and ages are integers.  average_marks and every value    *)
(* the script rounds to 2 decimals are kept in hundredths (79.8 is 7980);  *)
(* a value formatted with one decimal is kept in tenths.  A mean the       *)
(* script does not round is kept as the exact fraction <<sum, count>>.     *)
(***************************************************************************)
EXTENDS Integers, Sequences, FiniteSets, TLC

VARIABLES
    source,       \* data_science_student_marks.csv: [columns, rows]
    cache,        \* the st.cache_data entry of load_data: [hit, value]
    loads,        \* how many times the body of load_data has run (pd.read_csv)
    df,           \* the script's df of the latest pass: [columns, rows]
    widgets,      \* the session's widget values (the filter spec)
    filtered_df,  \* the script's filtered_df of the latest pass (rows)
    reached,      \* the steps of the script the latest pass completed
    error,        \* the exception that ended the latest pass, if any
    views         \* what the latest pass computed for display

vars == <<source, cache, loads, df, widgets, filtered_df, reached, error, views>>

----------------------------------------------------------------------------
(* Bounds of the model and constants of the program *)

\* Longest table of freely chosen rows.
MaxRows == 2

\* Rows a long table has beyond the Top-N cut-off.
MaxExtraRows == 1

\* Columns a malformed file lacks at most.
MaxMissingColumns == 1

\* st.sidebar.slider("Minimum Average Marks:", min_value=0, max_value=100)
SliderMin == 0
SliderMax == 100

\* filtered_df.nlargest(10, 'average_marks')
TopN == 10

\* pandas' missing value: the mean, max or std of too few rows.
NaN == -1

Range(s) == {s[i] : i \in 1..Len(s)}

\* The columns of the source, in file order.
IdColumns == <<"student_id", "location", "age">>
subjects == <<"sql_marks", "excel_marks", "python_marks", "power_bi_marks", "english_marks">>
subject_names == <<"SQL", "Excel", "Python", "Power BI", "English">>
SourceColumns == IdColumns \o subjects
DerivedColumns == <<"average_marks", "total_marks">>

\* Locations in sorted() order; the model's tables use these two.
LocationOrder == <<"LA", "NY">>
Ages == {20, 21}

\* The five marks of a row, in the order of subjects.
HighMarks == <<80, 90, 70, 60, 100>>    \* mean 80.00
LowMarks == <<80, 90, 70, 60, 99>>      \* mean 79.80
ScoreVectors == {HighMarks, LowMarks}

\* Positions of the minimum-average slider the user tries.
MinAvgChoices == {0, 80}

\* Selections of the subject multiselect the user makes.
SubjectChoices ==
    {Range(subject_names), {"Excel", "English"}, {}}

----------------------------------------------------------------------------
(* Arithmetic *)

RECURSIVE SumSeq(_)
SumSeq(s) == IF s = <<>> THEN 0 ELSE Head(s) + SumSeq(Tail(s))

RECURSIVE MaxSeq(_)
MaxSeq(s) ==
    IF s = <<>> THEN NaN
    ELSE IF Len(s) = 1 THEN s[1]
    ELSE LET m == MaxSeq(Tail(s)) IN IF s[1] >= m THEN s[1] ELSE m

RECURSIVE MinSeq(_)
MinSeq(s) ==
    IF s = <<>> THEN NaN
    ELSE IF Len(s) = 1 THEN s[1]
    ELSE LET m == MinSeq(Tail(s)) IN IF s[1] <= m THEN s[1] ELSE m

\* num / den rounded to the nearest integer, halves to the even neighbour
\* (numpy's round and Python's format); NaN for 0 / 0.
RoundDiv(num, den) ==
    IF den = 0 THEN NaN
    ELSE LET q == num \div den
             r == num % den
         IN  IF 2 * r < den THEN q
             ELSE IF 2 * r > den THEN q + 1
             ELSE IF q % 2 = 0 THEN q ELSE q + 1

\* The mean of integers, rounded to 2 decimals, in hundredths.
MeanRound2(s) == RoundDiv(100 * SumSeq(s), Len(s))

Column(rows, c) == [i \in 1..Len(rows) |-> rows[i][c]]

----------------------------------------------------------------------------
(* The data frame: [columns |-> set of names, rows |-> sequence of rows],  *)
(* a row being a function from the frame's columns to values.              *)

NoFrame == [columns |-> {}, rows |-> <<>>]

NoCache == [hit |-> FALSE, value |-> NoFrame]

\* The five marks of a row, in the order of subjects.
Marks(row) == [k \in 1..Len(subjects) |-> row[subjects[k]]]

\* Variant of average_marks: english_marks left out of the column list.
average_marks_of_four(row) == MeanRound2(SubSeq(Marks(row), 1, 4))

\* df[[...five subjects...]].mean(axis=1).round(2), in hundredths
average_marks(row) == MeanRound2(Marks(row))

\* df[[...five subjects...]].sum(axis=1)
total_marks(row) == SumSeq(Marks(row))

\* A row with the two derived columns added.
WithDerived(row) ==
    [c \in DOMAIN row \cup Range(DerivedColumns) |->
        IF c = "average_marks" THEN average_marks(row)
        ELSE IF c = "total_marks" THEN total_marks(row)
        ELSE row[c]]

\* Variant of load_data: the decorator left out, so every call runs the body.
load_data_uncached(c, src) ==
    IF ~(Range(subjects) \subseteq src.columns)
    THEN [raised |-> TRUE, df |-> NoFrame, cache |-> c, reads |-> 1]
    ELSE LET d == [columns |-> src.columns \cup Range(DerivedColumns),
                   rows |-> [i \in 1..Len(src.rows) |-> WithDerived(src.rows[i])]]
         IN  [raised |-> FALSE, df |-> d, cache |-> [hit |-> TRUE, value |-> d],
              reads |-> 1]

\* Variant of load_data: the KeyError caught and an empty frame returned.
load_data_swallow(c, src) ==
    IF c.hit
    THEN [raised |-> FALSE, df |-> c.value, cache |-> c, reads |-> 0]
    ELSE IF ~(Range(subjects) \subseteq src.columns)
    THEN [raised |-> FALSE, df |-> NoFrame,
          cache |-> [hit |-> TRUE, value |-> NoFrame], reads |-> 1]
    ELSE LET d == [columns |-> src.columns \cup Range(DerivedColumns),
                   rows |-> [i \in 1..Len(src.rows) |-> WithDerived(src.rows[i])]]
         IN  [raised |-> FALSE, df |-> d, cache |-> [hit |-> TRUE, value |-> d],
              reads |-> 1]

\* @st.cache_data def load_data(): what one call returns for a cache entry c and
\* a source src.  A hit returns the cached frame and does not run the body.  A
\* miss reads the file; selecting a subject column the file lacks raises
\* KeyError, and a call that raises stores nothing.
load_data(c, src) ==
    IF c.hit
    THEN [raised |-> FALSE, df |-> c.value, cache |-> c, reads |-> 0]
    ELSE IF ~(Range(subjects) \subseteq src.columns)
    THEN [raised |-> TRUE, df |-> NoFrame, cache |-> c, reads |-> 1]
    ELSE LET d == [columns |-> src.columns \cup Range(DerivedColumns),
                   rows |-> [i \in 1..Len(src.rows) |-> WithDerived(src.rows[i])]]
         IN  [raised |-> FALSE, df |-> d, cache |-> [hit |-> TRUE, value |-> d],
              reads |-> 1]

----------------------------------------------------------------------------
(* Sidebar *)

\* ['All'] + sorted(df['location'].unique().tolist())
all_locations(rows) ==
    <<"All">> \o SelectSeq(LocationOrder,
                           LAMBDA l : \E i \in 1..Len(rows) : rows[i].location = l)

\* int(df['age'].min()), int(df['age'].max())
min_age(rows) == MinSeq(Column(rows, "age"))
max_age(rows) == MaxSeq(Column(rows, "age"))

\* The widget values of a new session: index=0, default=subject_names, value=0.
\* The age slider has no value before the script first builds it.
DefaultWidgets ==
    [selected_location |-> "All",
     age_range |-> <<>>,
     selected_subjects |-> Range(subject_names),
     min_avg |-> SliderMin]

----------------------------------------------------------------------------
(* Apply filters *)

\* Variant of FilterRows: average_marks > min_avg.
FilterRowsStrict(rows, selected_location, age_range, min_avg) ==
    LET byLocation ==
            IF selected_location # "All"
            THEN SelectSeq(rows, LAMBDA r : r.location = selected_location)
            ELSE rows
        byAge ==
            SelectSeq(byLocation,
                      LAMBDA r : r.age >= age_range[1] /\ r.age <= age_range[2])
    IN  SelectSeq(byAge, LAMBDA r : r.average_marks > 100 * min_avg)

\* Variant of FilterRows: the location filter without its test for 'All'.
FilterRowsAlwaysLocation(rows, selected_location, age_range, min_avg) ==
    LET byLocation == SelectSeq(rows, LAMBDA r : r.location = selected_location)
        byAge ==
            SelectSeq(byLocation,
                      LAMBDA r : r.age >= age_range[1] /\ r.age <= age_range[2])
    IN  SelectSeq(byAge, LAMBDA r : r.average_marks >= 100 * min_avg)

\* The three filters of the script, applied one after the other to a copy of df.
FilterRows(rows, selected_location, age_range, min_avg) ==
    LET byLocation ==
            IF selected_location # "All"
            THEN SelectSeq(rows, LAMBDA r : r.location = selected_location)
            ELSE rows
        byAge ==
            SelectSeq(byLocation,
                      LAMBDA r : r.age >= age_range[1] /\ r.age <= age_range[2])
    IN  SelectSeq(byAge, LAMBDA r : r.average_marks >= 100 * min_avg)

\* Variant of NoMatch: len(filtered_df) < 0.
NoMatchNever(rows) == Len(rows) < 0

\* if len(filtered_df) == 0:
NoMatch(rows) == Len(rows) = 0

----------------------------------------------------------------------------
(* Sorting, as pandas orders rows *)

\* Whether fraction a = <<num, den>> is greater than fraction b.
FracGt(a, b) == a[1] * b[2] > b[1] * a[2]

\* The order a stable descending sort gives the fractions of keys: the indices
\* of keys by descending value, equal values keeping their order.
StableOrderDesc(keys) ==
    LET n == Len(keys)
        rank(i) == 1 + Cardinality({j \in 1..n :
                        FracGt(keys[j], keys[i])
                            \/ (~FracGt(keys[i], keys[j]) /\ j < i)})
    IN  [p \in 1..n |-> CHOOSE i \in 1..n : rank(i) = p]

\* The rows of s in descending order of a column of whole numbers.
SortRowsDesc(s, column) ==
    LET order == StableOrderDesc([i \in 1..Len(s) |-> <<s[i][column], 1>>])
    IN  [p \in 1..Len(s) |-> s[order[p]]]

SortAsc(s) ==
    LET n == Len(s)
        rank(i) == 1 + Cardinality({j \in 1..n :
                        s[j] < s[i] \/ (s[j] = s[i] /\ j < i)})
    IN  [p \in 1..n |-> s[CHOOSE i \in 1..n : rank(i) = p]]

\* The group keys of groupby('location'): the locations present, sorted.
GroupKeys(rows) ==
    SelectSeq(LocationOrder, LAMBDA l : \E i \in 1..Len(rows) : rows[i].location = l)

Group(rows, l) == SelectSeq(rows, LAMBDA r : r.location = l)

----------------------------------------------------------------------------
(* The views of the dashboard, each computed from filtered_df *)

\* Key Metrics: len, len - len(df), mean age (.1f, in tenths), mean and max of
\* average_marks (.2f, in hundredths), nunique of location.
key_metrics(rows, all_rows) ==
    [total_students |-> Len(rows),
     delta |-> Len(rows) - Len(all_rows),
     average_age |-> RoundDiv(10 * SumSeq(Column(rows, "age")), Len(rows)),
     avg_overall_score |-> RoundDiv(SumSeq(Column(rows, "average_marks")), Len(rows)),
     top_score |-> MaxSeq(Column(rows, "average_marks")),
     locations |-> Cardinality(Range(Column(rows, "location")))]

\* The mean of average_marks of the rows, unrounded: <<sum in hundredths, count>>.
MeanOfAverage(rows) == <<SumSeq(Column(rows, "average_marks")), Len(rows)>>

\* Variant of location_avg: sort_values() without ascending=False.
location_avg_ascending(rows) ==
    LET keys == GroupKeys(rows)
        means == [k \in 1..Len(keys) |->
                    [location |-> keys[k],
                     average_marks |-> MeanOfAverage(Group(rows, keys[k]))]]
        order == StableOrderDesc([k \in 1..Len(keys) |->
                                     <<0 - means[k].average_marks[1],
                                       means[k].average_marks[2]>>])
    IN  [p \in 1..Len(keys) |-> means[order[p]]]

\* filtered_df.groupby('location')['average_marks'].mean()
\*     .sort_values(ascending=False).reset_index()
location_avg(rows) ==
    LET keys == GroupKeys(rows)
        means == [k \in 1..Len(keys) |->
                    [location |-> keys[k],
                     average_marks |-> MeanOfAverage(Group(rows, keys[k]))]]
        order == StableOrderDesc([k \in 1..Len(keys) |-> means[k].average_marks])
    IN  [p \in 1..Len(keys) |-> means[order[p]]]

\* The loop over subject_mapping.items() from its k-th item on: one
\* {'Subject', 'Marks'} entry per row for every selected subject.
RECURSIVE SubjectDataFrom(_, _, _)
SubjectDataFrom(k, rows, selected_subjects) ==
    IF k > Len(subjects) THEN <<>>
    ELSE (IF subject_names[k] \in selected_subjects
          THEN [i \in 1..Len(rows) |->
                   [Subject |-> subject_names[k], Marks |-> rows[i][subjects[k]]]]
          ELSE <<>>)
         \o SubjectDataFrom(k + 1, rows, selected_subjects)

\* Variant of subject_data: the test "if subject_name in selected_subjects" left out.
subject_data_all(rows, selected_subjects) ==
    SubjectDataFrom(1, rows, Range(subject_names))

subject_data(rows, selected_subjects) == SubjectDataFrom(1, rows, selected_subjects)

\* px.scatter(filtered_df, x='age', y='average_marks', color='location',
\*            size='total_marks', hover_data=['student_id'])
scatter(rows) ==
    [i \in 1..Len(rows) |->
        [age |-> rows[i].age, average_marks |-> rows[i].average_marks,
         location |-> rows[i].location, total_marks |-> rows[i].total_marks,
         student_id |-> rows[i].student_id]]

\* filtered_df.groupby('location')[subject_cols].mean().round(2)
heatmap_data(rows) ==
    LET keys == GroupKeys(rows)
    IN  [k \in 1..Len(keys) |->
            [location |-> keys[k],
             means |-> [j \in 1..Len(subjects) |->
                          MeanRound2(Column(Group(rows, keys[k]), subjects[j]))]]]

\* The q-th quartile of the ascending sequence a, by linear interpolation, in
\* hundredths: the position is (n - 1) * q / 4.
Quartile(a, q) ==
    IF a = <<>> THEN NaN
    ELSE LET pos4 == (Len(a) - 1) * q
             lo == pos4 \div 4 + 1
             rem == pos4 % 4
         IN  IF rem = 0 THEN 100 * a[lo]
             ELSE 100 * a[lo] + 25 * rem * (a[lo + 1] - a[lo])

\* The sample variance (ddof = 1) as the fraction <<numerator, denominator>>:
\* describe()'s std is the square root of it, and NaN for fewer than two rows.
SampleVariance(s) ==
    LET n == Len(s)
        sq == [i \in 1..n |-> s[i] * s[i]]
    IN  IF n < 2 THEN <<NaN, NaN>>
        ELSE <<n * SumSeq(sq) - SumSeq(s) * SumSeq(s), n * (n - 1)>>

\* One column of describe().round(2), values in hundredths.
Describe(s) ==
    LET a == SortAsc(s)
    IN  [count |-> Len(s),
         mean |-> MeanRound2(s),
         std_squared |-> SampleVariance(s),
         min |-> IF s = <<>> THEN NaN ELSE 100 * MinSeq(s),
         p25 |-> Quartile(a, 1),
         p50 |-> Quartile(a, 2),
         p75 |-> Quartile(a, 3),
         max |-> IF s = <<>> THEN NaN ELSE 100 * MaxSeq(s)]

\* filtered_df[subject_cols].describe().round(2), columns renamed
stats_df(rows) ==
    [j \in 1..Len(subjects) |->
        [Subject |-> subject_names[j]] @@ Describe(Column(rows, subjects[j]))]

\* The distinct values of s in order of first appearance.
Unique(s) ==
    LET first == {i \in 1..Len(s) : \A j \in 1..(i - 1) : s[j] # s[i]}
    IN  [k \in 1..Cardinality(first) |->
            s[CHOOSE i \in first : Cardinality({j \in first : j < i}) = k - 1]]

Count(s, v) == Cardinality({i \in 1..Len(s) : s[i] = v})

\* filtered_df['location'].value_counts().reset_index()
location_counts(rows) ==
    LET col == Column(rows, "location")
        u == Unique(col)
        counts == [k \in 1..Len(u) |-> [Location |-> u[k], Count |-> Count(col, u[k])]]
    IN  SortRowsDesc(counts, "Count")

\* filtered_df['age'].value_counts().sort_index().reset_index()
age_counts(rows) ==
    LET col == Column(rows, "age")
        ages == SortAsc(Unique(col))
    IN  [k \in 1..Len(ages) |-> [Age |-> ages[k], Count |-> Count(col, ages[k])]]

\* Variant of nlargest: keep='last', later rows first among equal values.
nlargest_keep_last(n, rows) ==
    LET reversed == [i \in 1..Len(rows) |-> rows[Len(rows) + 1 - i]]
        sorted == SortRowsDesc(reversed, "average_marks")
    IN  SubSeq(sorted, 1, IF Len(rows) < n THEN Len(rows) ELSE n)

\* DataFrame.nlargest(n, 'average_marks') with keep='first': the first n rows in
\* descending order of average_marks, earlier rows first among equal values.
nlargest(n, rows) ==
    LET sorted == SortRowsDesc(rows, "average_marks")
    IN  SubSeq(sorted, 1, IF Len(rows) < n THEN Len(rows) ELSE n)

\* filtered_df.nlargest(10, 'average_marks')[[...]].reset_index(drop=True),
\* the index then numbered from 1
top_students(rows) ==
    LET top == nlargest(TopN, rows)
    IN  [i \in 1..Len(top) |->
            [student_id |-> top[i].student_id, location |-> top[i].location,
             age |-> top[i].age, average_marks |-> top[i].average_marks,
             total_marks |-> top[i].total_marks]]

\* Best Subject Performance: max() and mean().round(2) of every subject column
best_subjects(rows) ==
    [j \in 1..Len(subjects) |->
        [Subject |-> subject_names[j],
         Highest |-> MaxSeq(Column(rows, subjects[j])),
         Average |-> MeanRound2(Column(rows, subjects[j]))]]

\* filtered_df.to_csv(index=False): the header line, then one line per row with
\* the values in column order.
to_csv(columns, rows) ==
    LET cols == SelectSeq(SourceColumns \o DerivedColumns, LAMBDA c : c \in columns)
    IN  <<cols>> \o [i \in 1..Len(rows) |-> [k \in 1..Len(cols) |-> rows[i][cols[k]]]]

----------------------------------------------------------------------------
(* One pass of the script *)

NoError == [type |-> "none", at |-> "none"]

NoViews ==
    [key_metrics |-> <<>>, location_avg |-> <<>>, subject_data |-> <<>>,
     scatter |-> <<>>, heatmap_data |-> <<>>, stats_df |-> <<>>,
     location_counts |-> <<>>, age_counts |-> <<>>, top_students |-> <<>>,
     best_subjects |-> <<>>, raw_data |-> <<>>, csv |-> <<>>]

\* What the script has done before it calls load_data, once load_data has
\* returned, and once the sidebar and the filters are through.
BeforeLoad == {"page_config", "css"}
AfterLoad == BeforeLoad \cup {"load_data", "title"}
AfterFilters ==
    AfterLoad \cup {"location_filter", "age_filter", "subject_filter",
                    "min_avg_filter", "apply_filters"}

\* The steps of the else branch that display a view computed from filtered_df.
AggregateSteps ==
    {"key_metrics", "location_avg", "box_plot", "scatter", "heatmap", "statistics",
     "location_counts", "age_counts", "top_students", "best_subjects", "raw_data",
     "export"}

\* The first statement of the sidebar that raises on a frame, if any:
\* df['location'] and df['age'] raise KeyError for a column the frame lacks, and
\* int() raises ValueError on the NaN that min() of no rows gives.
SidebarFailure(frame) ==
    IF "location" \notin frame.columns
    THEN [type |-> "KeyError", at |-> "location_filter"]
    ELSE IF "age" \notin frame.columns
    THEN [type |-> "KeyError", at |-> "age_filter"]
    ELSE IF frame.rows = <<>>
    THEN [type |-> "ValueError", at |-> "age_filter"]
    ELSE NoError

\* The session's widget values once the sidebar has run with the values the
\* user asked for: the age slider starts at (min_age, max_age).
SidebarValues(frame, asked) ==
    IF SidebarFailure(frame) = NoError /\ asked.age_range = <<>>
    THEN [asked EXCEPT !.age_range = <<min_age(frame.rows), max_age(frame.rows)>>]
    ELSE asked

\* Variant of ApplyFilters: the filters applied to the filtered_df of the pass
\* before instead of a copy of df.
ApplyFiltersOnPrevious ==
    filtered_df' =
        IF SidebarFailure(df') = NoError
        THEN FilterRows(IF "apply_filters" \in reached THEN filtered_df ELSE df'.rows,
                        widgets'.selected_location, widgets'.age_range,
                        widgets'.min_avg)
        ELSE <<>>

\* Apply filters: filtered_df = df.copy(), then the three filters.
ApplyFilters ==
    filtered_df' =
        IF SidebarFailure(df') = NoError
        THEN FilterRows(df'.rows, widgets'.selected_location, widgets'.age_range,
                        widgets'.min_avg)
        ELSE <<>>

\* The views the else branch computes before the scatter plot, from the
\* filtered rows, the rows of df and the widget values w.
ViewsBeforeScatter(rows, all_rows, w) ==
    [NoViews EXCEPT
        !.key_metrics = <<key_metrics(rows, all_rows)>>,
        !.location_avg = location_avg(rows),
        !.subject_data = subject_data(rows, w.selected_subjects)]

\* All the views of the else branch.
AllViews(columns, rows, all_rows, w) ==
    [ViewsBeforeScatter(rows, all_rows, w) EXCEPT
        !.scatter = scatter(rows),
        !.heatmap_data = heatmap_data(rows),
        !.stats_df = stats_df(rows),
        !.location_counts = location_counts(rows),
        !.age_counts = age_counts(rows),
        !.top_students = top_students(rows),
        !.best_subjects = best_subjects(rows),
        !.raw_data = rows,
        !.csv = to_csv(columns, rows)]

\* if subject_data: the box plot is drawn only for a non-empty list.
BoxPlotStep(rows, w) ==
    IF subject_data(rows, w.selected_subjects) # <<>> THEN {"box_plot"} ELSE {}

\* The main dashboard, for a frame whose sidebar ran, the filtered rows and the
\* widget values w: the warning for no rows, else every view in script order;
\* px.scatter raises ValueError when hover_data names a column the frame lacks.
DashboardError(frame, rows) ==
    IF ~NoMatch(rows) /\ "student_id" \notin frame.columns
    THEN [type |-> "ValueError", at |-> "scatter"]
    ELSE NoError

DashboardReached(frame, rows, w) ==
    IF NoMatch(rows)
    THEN AfterFilters \cup {"warning", "footer"}
    ELSE IF "student_id" \notin frame.columns
    THEN AfterFilters \cup {"key_metrics", "location_avg"} \cup BoxPlotStep(rows, w)
    ELSE AfterFilters \cup (AggregateSteps \ {"box_plot"}) \cup BoxPlotStep(rows, w)
             \cup {"footer"}

DashboardViews(frame, rows, w) ==
    IF NoMatch(rows) THEN NoViews
    ELSE IF "student_id" \notin frame.columns
    THEN ViewsBeforeScatter(rows, frame.rows, w)
    ELSE AllViews(frame.columns, rows, frame.rows, w)

\* The pass from the sidebar on: a sidebar statement that raises ends it.
Dashboard ==
    LET fail == SidebarFailure(df')
    IN  IF fail # NoError
        THEN /\ error' = fail
             /\ reached' = (IF fail.at = "location_filter" THEN AfterLoad
                            ELSE AfterLoad \cup {"location_filter"})
             /\ views' = NoViews
        ELSE /\ error' = DashboardError(df', filtered_df')
             /\ reached' = DashboardReached(df', filtered_df', widgets')
             /\ views' = DashboardViews(df', filtered_df', widgets')

\* The script from top to bottom, with the widget values the user asked for.
RunScript(asked) ==
    LET ld == load_data(cache, source)
    IN  /\ cache' = ld.cache
        /\ loads' = loads + ld.reads
        /\ df' = ld.df
        /\ UNCHANGED source
        /\ IF ld.raised
           THEN /\ widgets' = asked
                /\ filtered_df' = <<>>
                /\ error' = [type |-> "KeyError", at |-> "load_data"]
                /\ reached' = BeforeLoad
                /\ views' = NoViews
           ELSE /\ widgets' = SidebarValues(df', asked)
                /\ ApplyFilters
                /\ Dashboard

----------------------------------------------------------------------------
(* The sources the model starts from *)

RowOf(i, location, age, marks) ==
    [student_id |-> i, location |-> location, age |-> age,
     sql_marks |-> marks[1], excel_marks |-> marks[2], python_marks |-> marks[3],
     power_bi_marks |-> marks[4], english_marks |-> marks[5]]

RowChoices == Range(LocationOrder) \X Ages \X ScoreVectors

\* Every table of up to MaxRows rows, student_id numbering the rows.
SmallTables ==
    UNION {{[i \in 1..n |-> RowOf(i, t[i][1], t[i][2], t[i][3])] :
                t \in [1..n -> RowChoices]} : n \in 0..MaxRows}

\* Tables longer than the Top-N cut-off: rows of one age with HighMarks, the
\* locations alternating, except LowMarks at any of the first row, the row at
\* the cut-off and the last row.
LongTables ==
    UNION {{[i \in 1..n |->
                RowOf(i, LocationOrder[(i % 2) + 1], 20,
                      IF i \in low THEN LowMarks ELSE HighMarks)] :
                low \in SUBSET {1, TopN, n}} :
           n \in (TopN + 1)..(TopN + MaxExtraRows)}

Restrict(row, columns) == [c \in columns |-> row[c]]

\* A file with the given columns.
SourceOf(columns, rows) ==
    [columns |-> columns, rows |-> [i \in 1..Len(rows) |-> Restrict(rows[i], columns)]]

InitWith(src) ==
    /\ source = src
    /\ cache = NoCache
    /\ loads = 0
    /\ df = NoFrame
    /\ widgets = DefaultWidgets
    /\ filtered_df = <<>>
    /\ reached = {}
    /\ error = NoError
    /\ views = NoViews

\* Tables for the files that lack columns.
SchemaRowChoices == {<<"LA", 20, HighMarks>>, <<"NY", 21, LowMarks>>}

SchemaTables ==
    UNION {{[i \in 1..n |-> RowOf(i, t[i][1], t[i][2], t[i][3])] :
                t \in [1..n -> SchemaRowChoices]} : n \in 0..MaxRows}

MissingColumns ==
    {m \in SUBSET Range(SourceColumns) :
        Cardinality(m) >= 1 /\ Cardinality(m) <= MaxMissingColumns}

\* Before the first pass of a new process: a file with every column, or a file
\* that lacks up to MaxMissingColumns of them.
Init ==
    \/ \E rows \in SmallTables \cup LongTables :
           InitWith(SourceOf(Range(SourceColumns), rows))
    \/ \E rows \in SchemaTables, missing \in MissingColumns :
           InitWith(SourceOf(Range(SourceColumns) \ missing, rows))

----------------------------------------------------------------------------
(* Actions: the first pass, and the pass each widget change triggers *)

Start ==
    /\ reached = {}
    /\ RunScript(widgets)

ChangeLocation ==
    /\ "location_filter" \in reached
    /\ \E l \in Range(all_locations(df.rows)) \ {widgets.selected_location} :
           RunScript([widgets EXCEPT !.selected_location = l])

ChangeAgeRange ==
    /\ "age_filter" \in reached
    /\ \E lo, hi \in min_age(df.rows)..max_age(df.rows) :
           /\ lo <= hi
           /\ <<lo, hi>> # widgets.age_range
           /\ RunScript([widgets EXCEPT !.age_range = <<lo, hi>>])

ChangeSubjects ==
    /\ "subject_filter" \in reached
    /\ \E selected \in SubjectChoices \ {widgets.selected_subjects} :
           RunScript([widgets EXCEPT !.selected_subjects = selected])

ChangeMinAvg ==
    /\ "min_avg_filter" \in reached
    /\ \E t \in (MinAvgChoices \cap SliderMin..SliderMax) \ {widgets.min_avg} :
           RunScript([widgets EXCEPT !.min_avg = t])

Next ==
    \/ Start
    \/ ChangeLocation
    \/ ChangeAgeRange
    \/ ChangeSubjects
    \/ ChangeMinAvg

Spec == Init /\ [][Next]_vars

----------------------------------------------------------------------------
(* Properties *)

\* Whether row r passes the filter spec w.
Qualifies(r, w) ==
    /\ w.selected_location = "All" \/ r.location = w.selected_location
    /\ w.age_range[1] <= r.age
    /\ r.age <= w.age_range[2]
    /\ r.average_marks >= 100 * w.min_avg

QualifyingRows == {i \in 1..Len(df.rows) : Qualifies(df.rows[i], widgets)}

\* C1: once a pass has applied the filters, filtered_df holds exactly the rows
\* of df that satisfy all three conditions (location equal or 'All', age within
\* the inclusive range, average_marks at least the threshold), each once and in
\* the order of df.
FilterExact ==
    "apply_filters" \in reached =>
        /\ Len(filtered_df) = Cardinality(QualifyingRows)
        /\ \A i \in QualifyingRows :
               filtered_df[1 + Cardinality({j \in QualifyingRows : j < i})] = df.rows[i]

\* A pass with all three filters narrowed that keeps a row sitting on the
\* threshold and on both age bounds, and drops another row.
FilterExactWitness ==
    /\ "apply_filters" \in reached
    /\ widgets.selected_location # "All"
    /\ widgets.min_avg > 0
    /\ widgets.age_range[1] = widgets.age_range[2]
    /\ Len(filtered_df) = 1
    /\ filtered_df[1].average_marks = 100 * widgets.min_avg
    /\ Len(df.rows) > 1

Contains(b, a) ==
    /\ Len(a) <= Len(b)
    /\ \A i \in 1..Len(a) : \E j \in 1..Len(b) : b[j] = a[i]

\* A step between two filtering passes that widens exactly one bound.
WideningStep ==
    /\ "apply_filters" \in reached
    /\ "apply_filters" \in reached'
    /\ \/ /\ widgets.selected_location # "All"
          /\ widgets' = [widgets EXCEPT !.selected_location = "All"]
       \/ /\ widgets'.age_range[1] <= widgets.age_range[1]
          /\ widgets'.age_range[2] >= widgets.age_range[2]
          /\ widgets' = [widgets EXCEPT !.age_range = widgets'.age_range]
       \/ /\ widgets'.min_avg <= widgets.min_avg
          /\ widgets' = [widgets EXCEPT !.min_avg = widgets'.min_avg]

\* C3: a pass that follows a widening of one bound (a location replaced by
\* 'All', a wider age range, a lower threshold) keeps every row the pass before
\* it kept, so the filtered subset does not shrink.
FilterMonotonic == [][WideningStep => Contains(filtered_df', filtered_df)]_vars

\* A pass narrowed on all three bounds that keeps a row and drops one: each of
\* the three widenings can follow it.
FilterMonotonicWitness ==
    /\ "apply_filters" \in reached
    /\ widgets.selected_location # "All"
    /\ widgets.age_range # <<min_age(df.rows), max_age(df.rows)>>
    /\ widgets.min_avg > 0
    /\ Len(filtered_df) > 0
    /\ Len(filtered_df) < Len(df.rows)

\* The position in df of the row with a student_id.
PositionOf(id) == CHOOSE i \in 1..Len(df.rows) : df.rows[i].student_id = id

\* C4: the Top-10 view of a non-empty pass holds min(10, subset size) records
\* of the filtered subset, by average_marks descending, records of equal
\* average in the order of the dataset; no record left out has a higher
\* average than one taken, or the same average and an earlier place.
TopTen ==
    "top_students" \in reached =>
        LET top == views.top_students
            n == Len(filtered_df)
            taken == {top[k].student_id : k \in 1..Len(top)}
        IN  /\ Len(top) = IF n < TopN THEN n ELSE TopN
            /\ Cardinality(taken) = Len(top)
            /\ \A k \in 1..Len(top) : \E i \in 1..n :
                   /\ filtered_df[i].student_id = top[k].student_id
                   /\ filtered_df[i].average_marks = top[k].average_marks
                   /\ filtered_df[i].total_marks = top[k].total_marks
                   /\ filtered_df[i].location = top[k].location
                   /\ filtered_df[i].age = top[k].age
            /\ \A k \in 1..(Len(top) - 1) :
                   \/ top[k].average_marks > top[k + 1].average_marks
                   \/ /\ top[k].average_marks = top[k + 1].average_marks
                      /\ PositionOf(top[k].student_id) < PositionOf(top[k + 1].student_id)
            /\ \A i \in 1..n : filtered_df[i].student_id \notin taken =>
                   \A k \in 1..Len(top) :
                       \/ top[k].average_marks > filtered_df[i].average_marks
                       \/ /\ top[k].average_marks = filtered_df[i].average_marks
                          /\ PositionOf(top[k].student_id)
                                 < PositionOf(filtered_df[i].student_id)

\* A pass with more than 10 filtered rows where the last record taken and a
\* record left out have the same average, and the view holds a tie and a drop.
TopTenWitness ==
    /\ "top_students" \in reached
    /\ Len(filtered_df) > TopN
    /\ Len(views.top_students) = TopN
    /\ \E i \in 1..Len(filtered_df) :
           /\ \A k \in 1..TopN : views.top_students[k].student_id
                                     # filtered_df[i].student_id
           /\ filtered_df[i].average_marks = views.top_students[TopN].average_marks
    /\ views.top_students[1].average_marks > views.top_students[TopN].average_marks
    /\ views.top_students[1].average_marks = views.top_students[2].average_marks

\* The sum of average_marks over the filtered rows of location l.
SumAtLocation(l) ==
    SumSeq([i \in 1..Len(filtered_df) |->
               IF filtered_df[i].location = l THEN filtered_df[i].average_marks ELSE 0])

CountAtLocation(l) ==
    Cardinality({i \in 1..Len(filtered_df) : filtered_df[i].location = l})

\* C5: the location-means view of a non-empty pass has one row per location of
\* the filtered subset, the row's value being the mean of average_marks over
\* that location's filtered rows; the rows are in descending order of the mean
\* and the group sizes add up to the size of the filtered subset.
LocationMeans ==
    "location_avg" \in reached =>
        LET v == views.location_avg
            present == {filtered_df[i].location : i \in 1..Len(filtered_df)}
        IN  /\ {v[k].location : k \in 1..Len(v)} = present
            /\ Len(v) = Cardinality(present)
            /\ \A k \in 1..Len(v) :
                   /\ v[k].average_marks[1] = SumAtLocation(v[k].location)
                   /\ v[k].average_marks[2] = CountAtLocation(v[k].location)
            /\ \A k \in 1..(Len(v) - 1) :
                   v[k].average_marks[1] * v[k + 1].average_marks[2]
                       >= v[k + 1].average_marks[1] * v[k].average_marks[2]
            /\ SumSeq([k \in 1..Len(v) |-> v[k].average_marks[2]]) = Len(filtered_df)

\* A pass whose view has two locations, the later group key first because its
\* mean is strictly higher, and a group of several rows.
LocationMeansWitness ==
    /\ "location_avg" \in reached
    /\ Len(views.location_avg) = 2
    /\ views.location_avg[1].location = LocationOrder[2]
    /\ FracGt(views.location_avg[1].average_marks, views.location_avg[2].average_marks)
    /\ views.location_avg[2].average_marks[2] > 1

\* A step between two filtering passes that changes the selected subjects only.
SubjectsOnlyStep ==
    /\ "apply_filters" \in reached
    /\ "apply_filters" \in reached'
    /\ widgets'.selected_subjects # widgets.selected_subjects
    /\ widgets' = [widgets EXCEPT !.selected_subjects = widgets'.selected_subjects]

\* The Marks of the entries of subject_data for one subject, in order.
MarksShown(name) ==
    LET shown == SelectSeq(views.subject_data, LAMBDA e : e.Subject = name)
    IN  [i \in 1..Len(shown) |-> shown[i].Marks]

\* The distribution view holds, for a selected subject, the mark of every
\* filtered row, and nothing for a subject that is not selected.
DistributionExact ==
    "location_avg" \in reached =>
        \A k \in 1..Len(subjects) :
            MarksShown(subject_names[k]) =
                IF subject_names[k] \in widgets.selected_subjects
                THEN Column(filtered_df, subjects[k])
                ELSE <<>>

\* C6: a change of the selected subjects alone leaves the filtered subset and
\* every view but the distribution as they were (with it, whether the box plot
\* is drawn), and the distribution holds one (subject, mark) pair per filtered
\* row for each selected subject and none for any other subject.
SubjectSelectionFrame ==
    /\ [][SubjectsOnlyStep =>
            /\ filtered_df' = filtered_df
            /\ [views' EXCEPT !.subject_data = <<>>]
                   = [views EXCEPT !.subject_data = <<>>]
            /\ reached' \ {"box_plot"} = reached \ {"box_plot"}
            /\ error' = error]_vars
    /\ []DistributionExact

\* A complete pass over several rows with two subjects selected, after the
\* default of all five.
SubjectSelectionWitness ==
    /\ "heatmap" \in reached
    /\ widgets.selected_subjects = {"Excel", "English"}
    /\ Len(filtered_df) > 1
    /\ Len(views.subject_data) = 2 * Len(filtered_df)
    /\ Len(views.heatmap_data[1].means) = Len(subjects)

\* C7: the body of load_data runs at most once, and every pass after the first
\* finds and leaves the source, the cached frame and df (rows, order, average
\* and total) as they were.
LoadOnce ==
    /\ [](loads <= 1)
    /\ [][reached # {} =>
            /\ loads' = loads
            /\ source' = source
            /\ cache' = cache
            /\ df' = df]_vars

\* A pass after a filter change that dropped rows of a loaded table.
LoadOnceWitness ==
    /\ loads = 1
    /\ cache.hit
    /\ widgets.min_avg > 0
    /\ widgets.selected_location # "All"
    /\ "apply_filters" \in reached
    /\ Len(filtered_df) < Len(df.rows)
    /\ Len(df.rows) = Len(source.rows)

\* C8: after load every row of df carries the values of its source row,
\* total_marks is the sum of the five marks, and average_marks (in hundredths)
\* is their mean rounded to 2 decimals: within half a hundredth of sum / 5.
DerivedColumnsExact ==
    "load_data" \in reached =>
        /\ Len(df.rows) = Len(source.rows)
        /\ \A i \in 1..Len(df.rows) :
               LET r == df.rows[i]
                   sum == r.sql_marks + r.excel_marks + r.python_marks
                              + r.power_bi_marks + r.english_marks
                   off == 5 * r.average_marks - 100 * sum
               IN  /\ \A c \in source.columns : r[c] = source.rows[i][c]
                   /\ r.total_marks = sum
                   /\ 2 * off <= 5
                   /\ 2 * off >= -5

\* A loaded table with a row whose mean is not a whole number.
DerivedColumnsWitness ==
    /\ "load_data" \in reached
    /\ \E i \in 1..Len(df.rows) :
           /\ df.rows[i].average_marks = 7980
           /\ df.rows[i].total_marks = 399

\* C9 as stated: if any required column is absent, the pass fails in the load
\* step, before anything beyond the page setup is rendered.
SchemaErrorAtLoad ==
    (reached # {} /\ ~(Range(SourceColumns) \subseteq source.columns)) =>
        /\ error.at = "load_data"
        /\ reached = BeforeLoad

\* C9 as amended: an absent subject column fails the load step with KeyError
\* before the title, the filters or any view; an absent location or age column
\* passes the load step and fails the sidebar statement that builds its filter,
\* before any filtering; an absent student_id alone fails only a pass that has
\* rows to show, at the scatter plot, after the key metrics and location means.
SchemaFailures ==
    reached # {} =>
        IF ~(Range(subjects) \subseteq source.columns)
        THEN /\ error = [type |-> "KeyError", at |-> "load_data"]
             /\ reached = BeforeLoad
             /\ ~cache.hit
             /\ views = NoViews
        ELSE IF "location" \notin source.columns
        THEN /\ error = [type |-> "KeyError", at |-> "location_filter"]
             /\ reached = AfterLoad
             /\ views = NoViews
        ELSE IF "age" \notin source.columns
        THEN /\ error = [type |-> "KeyError", at |-> "age_filter"]
             /\ reached = AfterLoad \cup {"location_filter"}
             /\ views = NoViews
        ELSE IF "student_id" \notin source.columns /\ source.rows # <<>>
        THEN IF Len(filtered_df) = 0
             THEN error = NoError /\ "warning" \in reached
             ELSE /\ error = [type |-> "ValueError", at |-> "scatter"]
                  /\ {"key_metrics", "location_avg"} \subseteq reached
                  /\ reached \cap {"scatter", "heatmap", "top_students", "export",
                                   "footer"} = {}
        ELSE TRUE

\* A first pass over a file without the location column: the load step
\* returned, the title is rendered, and the location filter raised.
SchemaFailuresWitness ==
    /\ "location" \notin source.columns
    /\ "title" \in reached
    /\ cache.hit
    /\ error = [type |-> "KeyError", at |-> "location_filter"]

\* What a first pass of a new process leaves for a source and widget values.
FirstPass(src, w) ==
    LET ld == load_data(NoCache, src)
    IN  IF ld.raised
        THEN [filtered_df |-> <<>>, views |-> NoViews, reached |-> BeforeLoad,
              error |-> [type |-> "KeyError", at |-> "load_data"]]
        ELSE IF SidebarFailure(ld.df) # NoError
        THEN [filtered_df |-> <<>>, views |-> NoViews,
              reached |-> (IF SidebarFailure(ld.df).at = "location_filter"
                           THEN AfterLoad ELSE AfterLoad \cup {"location_filter"}),
              error |-> SidebarFailure(ld.df)]
        ELSE LET rows == FilterRows(ld.df.rows, w.selected_location, w.age_range,
                                    w.min_avg)
             IN  [filtered_df |-> rows,
                  views |-> DashboardViews(ld.df, rows, w),
                  reached |-> DashboardReached(ld.df, rows, w),
                  error |-> DashboardError(ld.df, rows)]

\* C10: what a pass leaves (filtered subset, views, steps reached, error) is
\* what the first pass of a new process would leave for the same source and the
\* same widget values, whatever passes came before it.
PassIsPure ==
    reached # {} =>
        [filtered_df |-> filtered_df, views |-> views, reached |-> reached,
         error |-> error] = FirstPass(source, widgets)

\* A complete pass with two widgets off their defaults: widgets change one at
\* a time, so passes with other filter specs came before it.
PassIsPureWitness ==
    /\ "export" \in reached
    /\ widgets.selected_location = "All"
    /\ widgets.min_avg > 0
    /\ widgets.selected_subjects # Range(subject_names)
    /\ Len(filtered_df) = Len(df.rows)
    /\ Len(df.rows) > 1

====
